---------------------------- MODULE Spec2Model ----------------------------
(***************************************************************************)
(* A model of tvtv2xmltv_cron.py: main() fetches a channel lineup, renders *)
(* one channel block per lineup channel, then for each day fetches the     *)
(* programme grid in batches of 20 station ids, pairs the merged grid with *)
(* the lineup by position, renders one programme block per well-formed     *)
(* record and finally writes all accumulated lines to the output file.     *)
(*                                                                         *)
(* Text is modelled as a sequence of one-character strings, a JSON value   *)
(* as a tagged record ([t |-> "str", v |-> ...], [t |-> "null"], ...), an  *)
(* output line as a record naming the line's shape (k) and the texts the   *)
(* f-string interpolates into it.  Instants are minutes since              *)
(* 2026-01-01T00:00Z.                                                      *)
(***************************************************************************)
EXTENDS Integers, Sequences, FiniteSets, TLC

VARIABLES
    remote,        \* what the listing service answers: [lineup, featured, framed]
    pc,            \* position of main(): start, no_lineup, channels, day,
                   \*   fetch, programs, write, done
    lineup_data,   \* line 53
    all_channels,  \* line 66
    output_lines,  \* line 40
    day_offset,    \* line 84
    i,             \* line 95
    listing_data,  \* line 93
    file,          \* content of OUTPUT_FILE
    exit_status,   \* process exit status, -1 while running
    requests,      \* history: the grid requests issued, [day, ids, ok]
    writes,        \* history: the write attempts, [content, ok]
    skipped,       \* history: records skipped by the except clause, [day, station]
    crashed        \* history: TRUE once an uncaught exception ended the run

vars == <<remote, pc, lineup_data, all_channels, output_lines, day_offset, i,
          listing_data, file, exit_status, requests, writes, skipped, crashed>>

--------------------------------------------------------------------------
(* Bounds of the model *)

\* largest lineup the service answers with
MaxChannels == 45

\* grid fetches that may fail in one run
MaxFail == 1

\* longest channelNumber text of the channel-rendering inputs
MaxStrLen == 3

\* longest flags list of the programme-rendering inputs
MaxFlags == 2

--------------------------------------------------------------------------
(* Program constants *)

DAYS == 8

BatchSize == 20

Min(a, b) == IF a < b THEN a ELSE b

max_days == Min(DAYS, 8)

--------------------------------------------------------------------------
(* Text helpers *)

None == [t |-> "none"]

Null == [t |-> "null"]

Missing == [t |-> "missing"]

Str(s) == [t |-> "str", v |-> s]

Num(n) == [t |-> "num", v |-> n]

List(l) == [t |-> "list", v |-> l]

DigitChar == <<"0", "1", "2", "3", "4", "5", "6", "7", "8", "9">>

RECURSIVE Digits(_)
\* str(n) for n >= 0
Digits(n) ==
    IF n < 10 THEN <<DigitChar[n + 1]>>
    ELSE Digits(n \div 10) \o <<DigitChar[(n % 10) + 1]>>

RECURSIVE Replace(_, _, _)
\* str.replace(old, new) for a one-character old
Replace(s, old, new) ==
    IF s = <<>> THEN <<>>
    ELSE (IF Head(s) = old THEN new ELSE <<Head(s)>>) \o Replace(Tail(s), old, new)

\* xml.sax.saxutils.escape with no entities argument: &, then >, then <
escape(data) ==
    Replace(Replace(Replace(data, "&", <<"&", "a", "m", "p", ";">>),
                    ">", <<"&", "g", "t", ";">>),
            "<", <<"&", "l", "t", ";">>)

RECURSIVE Join(_, _)
\* sep.join(list)
Join(sep, list) ==
    IF list = <<>> THEN <<>>
    ELSE IF Len(list) = 1 THEN list[1]
    ELSE list[1] \o sep \o Join(sep, Tail(list))

RECURSIVE ConcatRange(_, _, _)
\* f[lo] \o ... \o f[hi], by halves
ConcatRange(f, lo, hi) ==
    IF lo > hi THEN <<>>
    ELSE IF lo = hi THEN f[lo]
    ELSE LET mid == (lo + hi) \div 2
         IN ConcatRange(f, lo, mid) \o ConcatRange(f, mid + 1, hi)

\* needle in hay, for two texts (substring test)
Contains(hay, needle) ==
    \E k \in 0..(Len(hay) - Len(needle)) :
        \A j \in 1..Len(needle) : hay[k + j] = needle[j]

--------------------------------------------------------------------------
(* The configured zone, TIMEZONE = "America/New_York", in 2026 *)

\* UTC offset in minutes outside daylight-saving time (EST)
StdOffset == -300

\* UTC offset in minutes during daylight-saving time (EDT)
DstOffset == -240

MinutesPerDay == 24 * 60

\* 2026-03-08T07:00Z, 02:00 EST: clocks go forward
DstStartUtc == 66 * MinutesPerDay + 7 * 60

\* 2026-11-01T06:00Z, 02:00 EDT: clocks go back
DstEndUtc == 304 * MinutesPerDay + 6 * 60

\* ZoneInfo.utcoffset of a local wall time with its fold attribute
utcoffset(wall, fold) ==
    IF wall < DstStartUtc + StdOffset THEN StdOffset
    ELSE IF wall < DstStartUtc + DstOffset
         THEN (IF fold = 0 THEN StdOffset ELSE DstOffset)  \* skipped hour
    ELSE IF wall < DstEndUtc + StdOffset THEN DstOffset
    ELSE IF wall < DstEndUtc + DstOffset
         THEN (IF fold = 0 THEN DstOffset ELSE StdOffset)  \* repeated hour
    ELSE StdOffset

\* datetime.astimezone(local_tz) of an aware UTC instant
astimezone(t_utc) ==
    LET off == IF t_utc >= DstStartUtc /\ t_utc < DstEndUtc
               THEN DstOffset ELSE StdOffset
    IN [wall |-> t_utc + off,
        fold |-> IF t_utc >= DstEndUtc /\ t_utc < DstEndUtc + (DstOffset - StdOffset)
                 THEN 1 ELSE 0]

\* aware datetime + timedelta(minutes): wall-clock arithmetic, fold reset to 0
add_minutes(dt, minutes) == [wall |-> dt.wall + minutes, fold |-> 0]

\* strftime('%Y%m%d%H%M%S %z'): date, time of day and offset fields
strftime(dt) ==
    LET off == utcoffset(dt.wall, dt.fold)
        mag == IF off < 0 THEN -off ELSE off
    IN [day |-> dt.wall \div MinutesPerDay,
        hh |-> (dt.wall % MinutesPerDay) \div 60,
        mm |-> dt.wall % 60,
        sign |-> IF off < 0 THEN "-" ELSE "+",
        oh |-> mag \div 60,
        om |-> mag % 60]

\* datetime.fromisoformat of the startTime text <<day of year, hour, minute>>
\* (the trailing Z is replaced by +00:00 first): an instant, or ValueError
fromisoformat(v) ==
    IF Len(v) = 3 /\ v[1] \in 0..364 /\ v[2] \in 0..23 /\ v[3] \in 0..59
    THEN [exc |-> "", v |-> v[1] * MinutesPerDay + v[2] * 60 + v[3]]
    ELSE [exc |-> "ValueError"]

--------------------------------------------------------------------------
(* Channel rendering, lines 67-79 *)

ChannelLines(channel) ==
    LET channel_num == escape(channel.channelNumber)
        call_sign == escape(channel.stationCallSign)
        logo_url == escape(channel.logo)
    IN <<[k |-> "channel", id |-> channel_num],
         [k |-> "display-name", text |-> channel_num],
         [k |-> "display-name", text |-> call_sign]>>
       \o (IF logo_url # <<>>
           THEN <<[k |-> "icon", src |-> <<"https://www.tvtv.us">> \o logo_url]>>
           ELSE <<>>)
       \o <<[k |-> "/channel"]>>

\* the loop of line 67: the channel blocks in lineup order
AllChannelLines(lineup) ==
    ConcatRange([n \in 1..Len(lineup) |-> ChannelLines(lineup[n])], 1, Len(lineup))

StationIds(lineup) == [n \in 1..Len(lineup) |-> lineup[n].stationId]

\* lines 47-48
HeaderLines == <<[k |-> "xml"], [k |-> "tv"]>>

--------------------------------------------------------------------------
(* Programme rendering, lines 110-148 *)

\* escape(program.get(key, '')): str.replace exists on text only
EscapeField(val) ==
    IF val.t = "missing" THEN [exc |-> "", v |-> <<>>]
    ELSE IF val.t = "str" THEN [exc |-> "", v |-> escape(val.v)]
    ELSE [exc |-> "AttributeError"]

\* ", ".join(program.get('flags', []))
JoinFlags(val) ==
    IF val.t = "missing" THEN [exc |-> "", v |-> <<>>]
    ELSE IF val.t = "list" THEN [exc |-> "", v |-> Join(<<",", " ">>, val.v)]
    ELSE [exc |-> "TypeError"]

\* datetime.fromisoformat(program['startTime'].replace('Z', '+00:00'))
ParseStart(val) ==
    IF val.t = "missing" THEN [exc |-> "KeyError"]
    ELSE IF val.t = "str" THEN fromisoformat(val.v)
    ELSE [exc |-> "AttributeError"]

DigitValue(c) == CHOOSE d \in 0..9 : DigitChar[d + 1] = c

RECURSIVE ParseDigits(_, _)
ParseDigits(s, acc) ==
    IF s = <<>> THEN acc
    ELSE ParseDigits(Tail(s), 10 * acc + DigitValue(Head(s)))

IsDigits(s) ==
    /\ s # <<>>
    /\ \A n \in 1..Len(s) : \E d \in 1..10 : DigitChar[d] = s[n]

\* int(program.get('runTime', 0))
IntOf(val) ==
    IF val.t = "missing" THEN [exc |-> "", v |-> 0]
    ELSE IF val.t = "num" THEN [exc |-> "", v |-> val.v]
    ELSE IF val.t = "str"
         THEN (IF IsDigits(val.v) THEN [exc |-> "", v |-> ParseDigits(val.v, 0)]
               ELSE [exc |-> "ValueError"])
    ELSE [exc |-> "TypeError"]

\* the first exception raised by lines 112-120, "" when none is
FirstExc(steps) ==
    IF \A n \in 1..Len(steps) : steps[n].exc = "" THEN ""
    ELSE steps[CHOOSE n \in 1..Len(steps) :
                  /\ steps[n].exc # ""
                  /\ \A m \in 1..(n - 1) : steps[m].exc = ""].exc

\* the flag tests of lines 136-142: membership in the joined text
HasFlag(flags, tag) == Contains(flags, tag)

\* lines 130-143
MarkerLines(program_type, flags) ==
    (IF program_type = <<"M">> THEN <<[k |-> "category", text |-> "movie"]>> ELSE <<>>)
    \o (IF program_type = <<"N">> THEN <<[k |-> "category", text |-> "news"]>> ELSE <<>>)
    \o (IF program_type = <<"S">> THEN <<[k |-> "category", text |-> "sports"]>> ELSE <<>>)
    \o (IF HasFlag(flags, <<"E", "I">>)
        THEN <<[k |-> "category", text |-> "kids"]>> ELSE <<>>)
    \o (IF HasFlag(flags, <<"H", "D">>) THEN <<[k |-> "video"]>> ELSE <<>>)
    \o (IF HasFlag(flags, <<"S", "t", "e", "r", "e", "o">>)
        THEN <<[k |-> "audio"]>> ELSE <<>>)
    \o (IF HasFlag(flags, <<"N", "e", "w">>) THEN <<[k |-> "new"]>> ELSE <<>>)

\* the channel attribute of line 126
ProgrammeChannel(channel) == channel.channelNumber

\* the stop time of line 121
EndLocal(t_start_local, run_time) == add_minutes(t_start_local, run_time)

\* One pass of the try block: the raised exception and no line, or the
\* block's lines.  g (day, station the slice was requested for) is history.
RenderProgram(program, channel, g) ==
    LET title == EscapeField(program.title)
        subtitle == EscapeField(program.subtitle)
        program_type == EscapeField(program.type)
        flags == JoinFlags(program.flags)
        t_start_utc == ParseStart(program.startTime)
        run_time == IntOf(program.runTime)
        exc == FirstExc(<<title, subtitle, program_type, flags, t_start_utc, run_time>>)
    IN IF exc # "" THEN [exc |-> exc, lines |-> <<>>]
       ELSE LET t_start_local == astimezone(t_start_utc.v)
                t_end_local == EndLocal(t_start_local, run_time.v)
            IN [exc |-> "",
                lines |->
                    <<[k |-> "programme",
                       start |-> strftime(t_start_local),
                       stop |-> strftime(t_end_local),
                       channel |-> ProgrammeChannel(channel),
                       day |-> g.day, forStation |-> g.station]>>
                    \o <<[k |-> "title", text |-> title.v]>>
                    \o (IF subtitle.v # <<>>
                        THEN <<[k |-> "sub-title", text |-> subtitle.v]>> ELSE <<>>)
                    \o MarkerLines(program_type.v, flags.v)
                    \o <<[k |-> "/programme"]>>]

\* the exceptions the except clause of line 146 catches
Caught == {"ValueError", "TypeError", "KeyError"}

RECURSIVE RenderSlice(_, _, _)
\* the loop of line 110 over one slice: its lines, the number of skipped
\* records, and whether an exception left the loop
RenderSlice(programs, channel, g) ==
    IF programs = <<>> THEN [crash |-> FALSE, lines |-> <<>>, skipped |-> <<>>]
    ELSE LET r == RenderProgram(Head(programs), channel, g)
         IN IF r.exc # "" /\ r.exc \notin Caught
            THEN [crash |-> TRUE, lines |-> <<>>, skipped |-> <<>>]
            ELSE LET rest == RenderSlice(Tail(programs), channel, g)
                 IN [crash |-> rest.crash,
                     lines |-> r.lines \o rest.lines,
                     skipped |-> (IF r.exc # "" THEN <<g>> ELSE <<>>) \o rest.skipped]

\* the loop of line 106: positions 1..min(len(lineup), len(listing)) in order,
\* up to the first slice an exception leaves
RenderDay(lineup, listing, day) ==
    LET n == Min(Len(lineup), Len(listing))
        res == [index \in 1..n |->
                   RenderSlice(listing[index].programs, lineup[index],
                               [day |-> day, station |-> listing[index].forStation])]
        crashAt == {index \in 1..n : res[index].crash}
        last == IF crashAt = {} THEN n
                ELSE CHOOSE index \in crashAt : \A other \in crashAt : index <= other
    IN [crash |-> crashAt # {},
        lines |-> ConcatRange([index \in 1..n |-> res[index].lines], 1, last),
        skipped |-> ConcatRange([index \in 1..n |-> res[index].skipped], 1, last)]

--------------------------------------------------------------------------
(* The listing service: the inputs of a run *)

\* the channel at position idx of a lineup; c marks the first channel's number
MkChannel(idx, c) ==
    [stationId |-> 100 + idx,
     channelNumber |-> IF idx = 1 /\ c # "-" THEN <<"5", c, "1">>
                       ELSE Digits(idx) \o <<".", "1">>,
     stationCallSign |-> <<"W">> \o Digits(idx),
     logo |-> IF idx % 2 = 1 THEN <<"/", "l">> \o Digits(idx) ELSE <<>>]

MkLineup(n, c) == [idx \in 1..n |-> MkChannel(idx, c)]

LineupSizes == {0, 1, 2, BatchSize + 1, MaxChannels}

\* plain lineups of every size, and small ones whose first channel number
\* holds a markup-special character
Lineups ==
    {MkLineup(n, "-") : n \in LineupSizes} \cup {MkLineup(n, "&") : n \in {1, 2}}

\* a well-formed record of the given day, starting at hour:00Z, 30 minutes
Good(day, hour) ==
    [title |-> Str(<<"T", "&">>), subtitle |-> Missing, type |-> Str(<<"M">>),
     flags |-> List(<<<<"H", "D">>>>),
     startTime |-> Str(<<9 + day, hour, 0>>), runTime |-> Num(30)]

\* the records a run's slices feature: one well-formed, the others malformed
\* in one field
FeaturedPrograms ==
    {[Good(0, 13) EXCEPT !.type = Str(<<"N">>), !.subtitle = Str(<<"s">>)],
     [Good(0, 13) EXCEPT !.startTime = Missing],
     [Good(0, 13) EXCEPT !.runTime = Str(<<"x">>)],
     [Good(0, 13) EXCEPT !.title = Null]}

\* the stations the service has programmes for: the first two of each batch
HasProgrammes(station) == (station - 101) % BatchSize < 2

\* the slice of one station on one day
SliceOf(day, station) ==
    IF remote.framed
    THEN (IF HasProgrammes(station)
          THEN <<Good(day, 12), remote.featured, Good(day, 14)>> ELSE <<>>)
    ELSE <<remote.featured>>

\* the grid response: one slice per requested station id, in request order
Response(day, ids) ==
    [n \in 1..Len(ids) |->
        [forStation |-> ids[n], programs |-> SliceOf(day, ids[n])]]

\* a truth test that takes only an absent value for "no data"
TruthyUnlessNone(val) == val.t = "list"

\* `if not lineup_data` / `if batch_data`
Truthy(val) == val.t = "list" /\ val.v # <<>>

\* what the file holds after a failed open or write: untouched, or truncated
AfterFailedWrite == {file, <<>>}

StaleFile == <<[k |-> "stale"]>>

--------------------------------------------------------------------------
(* main() *)

Init ==
    /\ remote \in [lineup : Lineups, featured : FeaturedPrograms, framed : {TRUE}]
    /\ pc = "start"
    /\ lineup_data = None
    /\ all_channels = <<>>
    /\ output_lines = <<>>
    /\ day_offset = 0
    /\ i = 0
    /\ listing_data = <<>>
    /\ file = StaleFile
    /\ exit_status = -1
    /\ requests = <<>>
    /\ writes = <<>>
    /\ skipped = <<>>
    /\ crashed = FALSE

\* lines 40-55: the header lines and the lineup fetch
FetchLineup ==
    /\ pc = "start"
    /\ output_lines' = HeaderLines
    /\ \E answer \in {None, List(remote.lineup)} :
        /\ lineup_data' = answer
        /\ pc' = IF Truthy(answer) THEN "channels" ELSE "no_lineup"
    /\ UNCHANGED <<remote, all_channels, day_offset, i, listing_data, file,
                   exit_status, requests, writes, skipped, crashed>>

\* the exit status of the lineup-failure branch, line 64
PartialExit == 1

\* lines 56-64: close the root, write what there is, exit 1
WritePartial ==
    /\ pc = "no_lineup"
    /\ output_lines' = Append(output_lines, [k |-> "/tv"])
    /\ \E ok \in BOOLEAN :
        /\ writes' = Append(writes, [content |-> output_lines', ok |-> ok])
        /\ IF ok THEN file' = output_lines' ELSE file' \in AfterFailedWrite
    /\ exit_status' = PartialExit
    /\ pc' = "done"
    /\ UNCHANGED <<remote, lineup_data, all_channels, day_offset, i, listing_data,
                   requests, skipped, crashed>>

\* lines 66-82: the channel blocks
RenderChannels ==
    /\ pc = "channels"
    /\ all_channels' = StationIds(lineup_data.v)
    /\ output_lines' = output_lines \o AllChannelLines(lineup_data.v)
    /\ day_offset' = 0
    /\ pc' = IF max_days > 0 THEN "day" ELSE "write"
    /\ UNCHANGED <<remote, lineup_data, i, listing_data, file, exit_status,
                   requests, writes, skipped, crashed>>

\* lines 84-95: a day begins with an empty listing
BeginDay ==
    /\ pc = "day"
    /\ listing_data' = <<>>
    /\ i' = 0
    /\ pc' = IF Len(all_channels) > 0 THEN "fetch" ELSE "programs"
    /\ UNCHANGED <<remote, lineup_data, all_channels, output_lines, day_offset,
                   file, exit_status, requests, writes, skipped, crashed>>

\* the station ids of the batch starting at position i, line 96
Batch(ids, start) == SubSeq(ids, start + 1, Min(start + BatchSize, Len(ids)))

Failures == Cardinality({n \in 1..Len(requests) : ~requests[n].ok})

\* the listing after a batch's answer, lines 102-103
Merge(listing, batch_data) ==
    IF Truthy(batch_data) THEN listing \o batch_data.v ELSE listing

\* lines 95-103: one batch request and its merge
FetchBatch ==
    /\ pc = "fetch"
    /\ LET channels_batch == Batch(all_channels, i)
       IN \E ok \in BOOLEAN :
            /\ ~ok => Failures < MaxFail
            /\ LET batch_data == IF ok THEN List(Response(day_offset, channels_batch))
                                 ELSE None
               IN listing_data' = Merge(listing_data, batch_data)
            /\ requests' = Append(requests,
                   [day |-> day_offset, ids |-> channels_batch, ok |-> ok])
    /\ i' = i + BatchSize
    /\ pc' = IF i' < Len(all_channels) THEN "fetch" ELSE "programs"
    /\ UNCHANGED <<remote, lineup_data, all_channels, output_lines, day_offset,
                   file, exit_status, writes, skipped, crashed>>

\* lines 106-148: the day's programme blocks, every exception caught
ProcessDay ==
    /\ pc = "programs"
    /\ LET r == RenderDay(lineup_data.v, listing_data, day_offset)
       IN /\ ~r.crash
          /\ output_lines' = output_lines \o r.lines
          /\ skipped' = skipped \o r.skipped
    /\ day_offset' = day_offset + 1
    /\ pc' = IF day_offset' < max_days THEN "day" ELSE "write"
    /\ UNCHANGED <<remote, lineup_data, all_channels, i, listing_data, file,
                   exit_status, requests, writes, crashed>>

\* lines 106-148 when a record raises what line 146 does not catch: the
\* traceback ends the process with status 1 and nothing is written
UncaughtError ==
    /\ pc = "programs"
    /\ LET r == RenderDay(lineup_data.v, listing_data, day_offset)
       IN /\ r.crash
          /\ output_lines' = output_lines \o r.lines
          /\ skipped' = skipped \o r.skipped
    /\ crashed' = TRUE
    /\ exit_status' = 1
    /\ pc' = "done"
    /\ UNCHANGED <<remote, lineup_data, all_channels, day_offset, i, listing_data,
                   file, requests, writes>>

\* a failed final write that falls through to the normal end of main()
WriteFailedFallsThrough == 1 - 1

\* the exit status after a failed final write, line 159
WriteFailedExit == 1

\* lines 150-161: close the root and write the file
WriteFinal ==
    /\ pc = "write"
    /\ output_lines' = Append(output_lines, [k |-> "/tv"])
    /\ \E ok \in BOOLEAN :
        /\ writes' = Append(writes, [content |-> output_lines', ok |-> ok])
        /\ IF ok THEN file' = output_lines' ELSE file' \in AfterFailedWrite
        /\ exit_status' = IF ok THEN 0 ELSE WriteFailedExit
    /\ pc' = "done"
    /\ UNCHANGED <<remote, lineup_data, all_channels, day_offset, i, listing_data,
                   requests, skipped, crashed>>

Next ==
    \/ FetchLineup
    \/ WritePartial
    \/ RenderChannels
    \/ BeginDay
    \/ FetchBatch
    \/ ProcessDay
    \/ UncaughtError
    \/ WriteFinal

Spec == Init /\ [][Next]_vars

--------------------------------------------------------------------------
(* Runs over the channel-rendering inputs: one channel whose number is any *)
(* text of up to MaxStrLen characters, markup-special ones included        *)

TextsUpTo(alphabet, n) == UNION {[1..m -> alphabet] : m \in 0..n}

ChannelNumbers == TextsUpTo({"5", "&", "<", ">", "\""}, MaxStrLen)

InitChannel ==
    /\ \E s \in ChannelNumbers :
        remote = [lineup |-> <<[stationId |-> 101,
                                channelNumber |-> s,
                                stationCallSign |-> <<"W">> \o s,
                                logo |-> IF Len(s) % 2 = 1 THEN <<"/">> \o s ELSE <<>>]>>,
                  featured |-> Good(0, 13),
                  framed |-> FALSE]
    /\ pc = "start"
    /\ lineup_data = None
    /\ all_channels = <<>>
    /\ output_lines = <<>>
    /\ day_offset = 0
    /\ i = 0
    /\ listing_data = <<>>
    /\ file = StaleFile
    /\ exit_status = -1
    /\ requests = <<>>
    /\ writes = <<>>
    /\ skipped = <<>>
    /\ crashed = FALSE

\* main() up to the end of the channel loop
NextChannel == FetchLineup \/ WritePartial \/ RenderChannels

SpecChannel == InitChannel /\ [][NextChannel]_vars

--------------------------------------------------------------------------
(* Runs over the programme-rendering inputs: a one-channel lineup whose    *)
(* slice holds one record each day                                         *)

Tags ==
    {<<"E", "I">>, <<"H", "D">>, <<"S", "t", "e", "r", "e", "o">>, <<"N", "e", "w">>,
     <<"H", "D", "R">>, <<"N", "e", "w", "s">>}

TypeCodes == {Str(<<"M">>), Str(<<"N">>), Str(<<"S">>), Str(<<"E">>), Missing}

\* every type code with every flags list of up to MaxFlags tags
FlagInputs ==
    {[Good(0, 13) EXCEPT !.type = ty, !.flags = List(fl)] :
        ty \in TypeCodes, fl \in TextsUpTo(Tags, MaxFlags)}

\* start times every half hour from 00:00Z to 09:30Z on the two transition
\* days and an ordinary day (day of year, 0-based)
StartTimes ==
    {<<d, h, m>> : d \in {9, 66, 304}, h \in 0..9, m \in {0, 30}}

RunTimes == {Num(0), Num(30), Num(60), Num(120), Str(<<"9", "0">>), Missing}

TimeInputs ==
    {[Good(0, 13) EXCEPT !.startTime = Str(st), !.runTime = rt] :
        st \in StartTimes, rt \in RunTimes}

\* one field malformed
MalformedInputs ==
    {[Good(0, 13) EXCEPT !.startTime = v] :
        v \in {Missing, Null, Num(5), Str(<<>>), Str(<<9, 25, 0>>)}}
    \cup {[Good(0, 13) EXCEPT !.runTime = v] : v \in {Null, Str(<<"x">>), List(<<>>)}}
    \cup {[Good(0, 13) EXCEPT !.title = Null],
          [Good(0, 13) EXCEPT !.subtitle = Null],
          [Good(0, 13) EXCEPT !.type = Null],
          [Good(0, 13) EXCEPT !.flags = Null]}

ProgramInputs == FlagInputs \cup TimeInputs \cup MalformedInputs

InitProgram ==
    /\ remote \in [lineup : {MkLineup(1, "-")}, featured : ProgramInputs,
                   framed : {FALSE}]
    /\ pc = "start"
    /\ lineup_data = None
    /\ all_channels = <<>>
    /\ output_lines = <<>>
    /\ day_offset = 0
    /\ i = 0
    /\ listing_data = <<>>
    /\ file = StaleFile
    /\ exit_status = -1
    /\ requests = <<>>
    /\ writes = <<>>
    /\ skipped = <<>>
    /\ crashed = FALSE

SpecProgram == InitProgram /\ [][Next]_vars

--------------------------------------------------------------------------
(* Vocabulary of the properties *)

\* the lineup fetch returned data (neither absent nor empty)
HasData == lineup_data.t = "list" /\ lineup_data.v # <<>>

\* the positions of the output lines of one shape
Indices(kind) == {n \in 1..Len(output_lines) : output_lines[n].k = kind}

\* the declaration, the opening root element and the closing root element
Wrapper == <<[k |-> "xml"], [k |-> "tv"], [k |-> "/tv"]>>

LastWrite == writes[Len(writes)]

\* the programme blocks a day contributed
BlocksOn(d) == {n \in Indices("programme") : output_lines[n].day = d}

FailedOn(d) == \E n \in 1..Len(requests) : requests[n].day = d /\ ~requests[n].ok

\* a record with every field present or absent as the interface describes it
WellFormed(p) ==
    /\ p.title.t \in {"str", "missing"}
    /\ p.subtitle.t \in {"str", "missing"}
    /\ p.type.t \in {"str", "missing"}
    /\ p.flags.t \in {"list", "missing"}
    /\ p.startTime.t = "str" /\ fromisoformat(p.startTime.v).exc = ""
    /\ \/ p.runTime.t \in {"num", "missing"}
       \/ p.runTime.t = "str" /\ IsDigits(p.runTime.v)

\* the station ids whose slices a day's successful requests returned, in order
FetchedStations(d) ==
    ConcatRange([n \in 1..Len(requests) |->
                    IF requests[n].day = d /\ requests[n].ok
                    THEN requests[n].ids ELSE <<>>],
                1, Len(requests))

\* the well-formed records among the slices a day's successful requests returned
FetchedRecords(d) ==
    LET st == FetchedStations(d)
    IN {<<pos, j>> \in (1..Len(st)) \X (1..3) :
           /\ j <= Len(SliceOf(d, st[pos]))
           /\ WellFormed(SliceOf(d, st[pos])[j])}

\* the instant a rendered timestamp denotes: local time minus its offset
InstantOf(x) ==
    x.day * MinutesPerDay + x.hh * 60 + x.mm
        - (IF x.sign = "-" THEN -1 ELSE 1) * (x.oh * 60 + x.om)

--------------------------------------------------------------------------
(* C1: a run that has terminated exited with 0 exactly when the lineup     *)
(* fetch returned data and the final write succeeded, and with 1 when the  *)
(* lineup was not fetched or the write failed; failed batch fetches and    *)
(* skipped records play no part.                                           *)
C1_ExitStatus ==
    /\ pc # "done" => exit_status = -1
    /\ pc = "done" =>
        /\ exit_status \in {0, 1}
        /\ exit_status = 0 <=> (HasData /\ writes # <<>> /\ LastWrite.ok)
        /\ (~HasData \/ (writes # <<>> /\ ~LastWrite.ok)) => exit_status = 1

\* a run that exits with 0 after a failed batch fetch and a skipped record
C1_Witness ==
    /\ pc = "done" /\ exit_status = 0
    /\ Failures > 0
    /\ skipped # <<>>

(* C2 as stated: when the lineup fetch returns nothing or an empty list,   *)
(* no grid request is issued, the file is written once, its content is     *)
(* exactly the wrapper, and the exit status is 1.                          *)
C2_AsStated ==
    (pc = "done" /\ ~HasData) =>
        /\ requests = <<>>
        /\ Len(writes) = 1
        /\ file = Wrapper
        /\ exit_status = 1

(* C2, amended: when the lineup fetch returns nothing or an empty list, no *)
(* grid request is issued, exactly one write is attempted, with exactly    *)
(* the wrapper as its content, the file holds exactly the wrapper if that  *)
(* write succeeds, and the exit status is 1 either way.                    *)
C2_EmptyLineup ==
    /\ (pc = "no_lineup") => requests = <<>> /\ writes = <<>>
    /\ (pc = "done" /\ ~HasData) =>
        /\ requests = <<>>
        /\ Len(writes) = 1
        /\ writes[1].content = Wrapper
        /\ writes[1].ok => file = Wrapper
        /\ exit_status = 1

\* an empty lineup list, written out as the bare wrapper
C2_Witness ==
    /\ pc = "done"
    /\ lineup_data = List(<<>>)
    /\ file = Wrapper
    /\ exit_status = 1

(* C3: the channel attribute of every programme block equals the id        *)
(* attribute of a channel block of the document.                           *)
C3_ChannelReference ==
    \A n \in Indices("programme") :
        \E c \in Indices("channel") : output_lines[c].id = output_lines[n].channel

(* C4: a processed day on which a batch fetch failed contributes no        *)
(* programme block; every other processed day contributes one block per    *)
(* well-formed record of its fetched slices.                               *)
C4_FailedDayEmpty ==
    \A d \in 0..(max_days - 1) :
        d < day_offset =>
            IF FailedOn(d) THEN BlocksOn(d) = {}
            ELSE Cardinality(BlocksOn(d)) = Cardinality(FetchedRecords(d))

\* the grid requests of a whole run for the station ids of the lineup:
\* each day, batches of at most 20 ids in lineup order
ExpectedRequests(ids) ==
    LET nb == (Len(ids) + 19) \div 20
    IN [n \in 1..(max_days * nb) |->
           [day |-> (n - 1) \div nb,
            ids |-> SubSeq(ids, 20 * ((n - 1) % nb) + 1,
                           Min(20 * ((n - 1) % nb) + 20, Len(ids)))]]

\* the requests issued so far are the first of the expected ones
RequestsInOrder ==
    HasData =>
        LET want == ExpectedRequests(StationIds(lineup_data.v))
        IN /\ Len(requests) <= Len(want)
           /\ \A n \in 1..Len(requests) :
                /\ requests[n].day = want[n].day
                /\ requests[n].ids = want[n].ids

(* C5: for a lineup of N >= 1 channels a run issues, on each of the        *)
(* min(DAYS, 8) days, ceil(N/20) requests of at most 20 ids in lineup      *)
(* order that together cover the lineup once, whatever batches failed.     *)
C5_Batching ==
    /\ RequestsInOrder
    /\ (pc = "done" /\ HasData) =>
           Len(requests) = Len(ExpectedRequests(StationIds(lineup_data.v)))

\* the same for the runs that no uncaught exception ended
C5_BatchingOfCompletedRuns ==
    /\ RequestsInOrder
    /\ (pc = "done" /\ HasData /\ ~crashed) =>
           Len(requests) = Len(ExpectedRequests(StationIds(lineup_data.v)))

(* C6: a malformed record never ends the run, leaves no line in the        *)
(* output, and every well-formed record of the slices fetched for a day is *)
(* rendered as a complete block.                                           *)
C6_MalformedSkipped ==
    /\ ~crashed
    /\ Cardinality(Indices("programme")) = Cardinality(Indices("/programme"))
    /\ \A d \in 0..(max_days - 1) :
        d < day_offset => Cardinality(BlocksOn(d)) = Cardinality(FetchedRecords(d))

\* the entity form of a markup-special character
EntityOf(c) ==
    CASE c = "&" -> <<"&", "a", "m", "p", ";">>
      [] c = "<" -> <<"&", "l", "t", ";">>
      [] c = ">" -> <<"&", "g", "t", ";">>
      [] c = "\"" -> <<"&", "q", "u", "o", "t", ";">>
      [] OTHER -> <<c>>

\* a text with & < > " replaced by their entity forms
Escaped4(s) == ConcatRange([n \in 1..Len(s) |-> EntityOf(s[n])], 1, Len(s))

IsChannelLine(line) == line.k = "channel"

IsDisplayName(line) == line.k = "display-name"

(* C7: the id and the two display names of each channel block are the raw  *)
(* channelNumber and stationCallSign with & < > " replaced by their entity *)
(* forms, so none of < > " occurs in them.                                 *)
C7_ChannelEscaped ==
    (HasData /\ pc \notin {"start", "channels"}) =>
        LET lineup == lineup_data.v
            blocks == SelectSeq(output_lines, IsChannelLine)
            names == SelectSeq(output_lines, IsDisplayName)
        IN \A c \in 1..Len(lineup) :
            /\ blocks[c].id = Escaped4(lineup[c].channelNumber)
            /\ names[2 * c - 1].text = Escaped4(lineup[c].channelNumber)
            /\ names[2 * c].text = Escaped4(lineup[c].stationCallSign)
            /\ \A m \in 1..Len(blocks[c].id) : blocks[c].id[m] \notin {"<", ">", "\""}

\* the category and marker lines of the block that starts at line n
MarkersOf(n) ==
    LET close == CHOOSE e \in Indices("/programme") :
                     /\ e > n
                     /\ \A o \in Indices("/programme") : o > n => e <= o
    IN {IF output_lines[j].k = "category" THEN output_lines[j].text
        ELSE output_lines[j].k : j \in (n + 1)..(close - 1)}
       \cap {"movie", "news", "sports", "kids", "video", "audio", "new"}

\* the markers a type code and a set of flag tags call for
ExpectedMarkers(type, tags) ==
    (IF type = <<"M">> THEN {"movie"} ELSE {})
    \cup (IF type = <<"N">> THEN {"news"} ELSE {})
    \cup (IF type = <<"S">> THEN {"sports"} ELSE {})
    \cup (IF <<"E", "I">> \in tags THEN {"kids"} ELSE {})
    \cup (IF <<"H", "D">> \in tags THEN {"video"} ELSE {})
    \cup (IF <<"S", "t", "e", "r", "e", "o">> \in tags THEN {"audio"} ELSE {})
    \cup (IF <<"N", "e", "w">> \in tags THEN {"new"} ELSE {})

(* C8: the category and marker lines of a programme block are those its    *)
(* record's type code and the set of its flag tags call for.               *)
C8_Markers ==
    (~remote.framed /\ WellFormed(remote.featured)) =>
        LET p == remote.featured
            type == IF p.type.t = "str" THEN p.type.v ELSE <<>>
            tags == IF p.flags.t = "list"
                    THEN {p.flags.v[n] : n \in 1..Len(p.flags.v)} ELSE {}
        IN \A n \in Indices("programme") : MarkersOf(n) = ExpectedMarkers(type, tags)

\* the runTime of a well-formed record, in minutes
RunTimeOf(p) ==
    IF p.runTime.t = "num" THEN p.runTime.v
    ELSE IF p.runTime.t = "str" THEN ParseDigits(p.runTime.v, 0)
    ELSE 0

(* C9: the instant the stop attribute of a programme block denotes is      *)
(* exactly runTime minutes after the instant its start attribute denotes,  *)
(* for every runTime >= 0.                                                 *)
C9_StopAfterStart ==
    (~remote.framed /\ WellFormed(remote.featured) /\ RunTimeOf(remote.featured) >= 0) =>
        \A n \in Indices("programme") :
            InstantOf(output_lines[n].stop)
                = InstantOf(output_lines[n].start) + RunTimeOf(remote.featured)

(* C10: every programme block carries the channelNumber of the lineup      *)
(* channel whose station id its slice was requested for.                   *)
C10_Pairing ==
    HasData =>
        \A n \in Indices("programme") :
            \E c \in 1..Len(lineup_data.v) :
                /\ lineup_data.v[c].stationId = output_lines[n].forStation
                /\ lineup_data.v[c].channelNumber = output_lines[n].channel

============================================================================
